---------------------------- MODULE Spec2Model ----------------------------
(***************************************************************************)
(* Model of the semantic-release action (dist/index.js): the Version value *)
(* type with its tag (de)serialization and ordering, the four bump tables  *)
(* of getNextVersion, and the run of main() through release() / promote()  *)
(* with its collaborator calls.                                            *)
(*                                                                         *)
(* Strings are sequences of one-character strings, so that split, parseInt *)
(* and the template literals of toTag are computed character by character. *)
(* JavaScript's NaN and undefined are encoded as negative integers; every  *)
(* genuine number of the program is non-negative (a '-' never survives the *)
(* split on "-" that precedes every parseInt).                             *)
(***************************************************************************)
EXTENDS Integers, Sequences, FiniteSets

(***************************************************************************)
(* Bounds of the model.                                                    *)
(***************************************************************************)
\* largest major / minor / patch drawn as an input
MaxNum == 2
\* largest prerelease ordinal drawn as an input
MaxPre == 2

(***************************************************************************)
(* JavaScript values and primitive operations.                             *)
(***************************************************************************)
\* the result of parseInt on a string without leading digits
NaN == -1
\* the value of a destructured array element that does not exist
undefined == -2
\* Number.MAX_VALUE, the prerelease field of a final release; every
\* ordinal the model reaches is far below it
MAX_VALUE == 1000000

IsNumber(x) == x >= 0

\* JS relational operators: any comparison with NaN or undefined is false
Gt(a, b) == IsNumber(a) /\ IsNumber(b) /\ a > b
Lt(a, b) == IsNumber(a) /\ IsNumber(b) /\ a < b

\* an increment that adds nothing
Inc_keeps(x) == x

\* JS x + 1
Inc(x) == IF IsNumber(x) THEN x + 1 ELSE NaN

DigitChar == <<"0", "1", "2", "3", "4", "5", "6", "7", "8", "9">>
IsDigit(c) == \E i \in 1..10 : DigitChar[i] = c
DigitVal(c) == (CHOOSE i \in 1..10 : DigitChar[i] = c) - 1

RECURSIVE Digits(_)
Digits(n) == IF n < 10 THEN <<DigitChar[n + 1]>>
             ELSE Digits(n \div 10) \o <<DigitChar[(n % 10) + 1]>>

\* `${x}` of a template literal
NumberToString(x) ==
    IF x = NaN THEN <<"N", "a", "N">>
    ELSE IF x = undefined THEN <<"u", "n", "d", "e", "f", "i", "n", "e", "d">>
    ELSE Digits(x)

RECURSIVE LeadingDigits(_)
LeadingDigits(s) == IF s = <<>> \/ ~IsDigit(Head(s)) THEN 0
                    ELSE 1 + LeadingDigits(Tail(s))

RECURSIVE DigitsValue(_)
DigitsValue(s) == IF s = <<>> THEN 0
                  ELSE DigitsValue(SubSeq(s, 1, Len(s) - 1)) * 10 + DigitVal(s[Len(s)])

\* parseInt(s): the number written by the leading digits of s, NaN if none
parseInt(s) == LET n == LeadingDigits(s)
               IN  IF n = 0 THEN NaN ELSE DigitsValue(SubSeq(s, 1, n))

\* String.prototype.split(sep) for a one-character separator
RECURSIVE split(_, _)
split(s, sep) ==
    IF \A i \in 1..Len(s) : s[i] # sep THEN <<s>>
    ELSE LET i == CHOOSE k \in 1..Len(s) : s[k] = sep /\ \A j \in 1..(k - 1) : s[j] # sep
         IN  <<SubSeq(s, 1, i - 1)>> \o split(SubSeq(s, i + 1, Len(s)), sep)

\* array destructuring of numbers: a missing element is undefined
Elem(arr, i) == IF i <= Len(arr) THEN arr[i] ELSE undefined

(***************************************************************************)
(* class Version                                                           *)
(***************************************************************************)
Version(major, minor, patch, prerelease) ==
    [major |-> major, minor |-> minor, patch |-> patch, prerelease |-> prerelease]

isMajorRelease(v) == v.minor = 0 /\ v.patch = 0
isMinorRelease(v) == v.patch = 0
\* a patch test that starts at two
isPatchRelease_aboveOne(v) == Gt(v.patch, 1)
isPatchRelease(v) == Gt(v.patch, 0)
isPreRelease(v) == Lt(v.prerelease, MAX_VALUE)
\* an at-least-major test that never holds
isAtLeastMajorRelease_never(v) == FALSE
isAtLeastMajorRelease(v) == isMajorRelease(v)
isAtLeastMinorRelease(v) == isMajorRelease(v) \/ isMinorRelease(v)
\* an at-least-patch test without the || chain
isAtLeastPatchRelease_patchOnly(v) == isPatchRelease(v)
isAtLeastPatchRelease(v) == isMajorRelease(v) \/ isMinorRelease(v) \/ isPatchRelease(v)

\* a compare that forgets the prerelease component
compare_ignoringPrerelease(this, other) ==
    IF Gt(this.major, other.major) THEN 1
    ELSE IF Lt(this.major, other.major) THEN -1
    ELSE IF Gt(this.minor, other.minor) THEN 1
    ELSE IF Lt(this.minor, other.minor) THEN -1
    ELSE IF Gt(this.patch, other.patch) THEN 1
    ELSE IF Lt(this.patch, other.patch) THEN -1
    ELSE 0

compare(this, other) ==
    IF Gt(this.major, other.major) THEN 1
    ELSE IF Lt(this.major, other.major) THEN -1
    ELSE IF Gt(this.minor, other.minor) THEN 1
    ELSE IF Lt(this.minor, other.minor) THEN -1
    ELSE IF Gt(this.patch, other.patch) THEN 1
    ELSE IF Lt(this.patch, other.patch) THEN -1
    ELSE IF Gt(this.prerelease, other.prerelease) THEN 1
    ELSE IF Lt(this.prerelease, other.prerelease) THEN -1
    ELSE 0

greaterThan(this, other) == compare(this, other) > 0

\* "M.N.P", shared by the three template literals of toTag
Dotted(v) == NumberToString(v.major) \o <<".">> \o NumberToString(v.minor)
             \o <<".">> \o NumberToString(v.patch)

\* a toTag without the special case for ordinal 0
toTag_alwaysOrdinal(v) ==
    IF isPreRelease(v)
    THEN Dotted(v) \o <<"-", "p", "r", "e", ".">> \o NumberToString(v.prerelease)
    ELSE Dotted(v)

toTag(v) ==
    IF isPreRelease(v)
    THEN IF v.prerelease = 0
         THEN Dotted(v) \o <<"-", "p", "r", "e">>
         ELSE Dotted(v) \o <<"-", "p", "r", "e", ".">> \o NumberToString(v.prerelease)
    ELSE Dotted(v)

\* the publish version written as the tag
toPublishVersion_asTag(v) == toTag(v)

toPublishVersion(v) ==
    IF isPreRelease(v)
    THEN Dotted(v) \o <<"-", "S", "N", "A", "P", "S", "H", "O", "T">>
    ELSE Dotted(v)

(***************************************************************************)
(* tagToVersion                                                            *)
(***************************************************************************)
\* core.setFailed(...); process.exit(1) in place of a returned Version
ProcessExit == [exit |-> 1]

\* a tagToVersion that parses the ordinal even when "-pre" carries none
tagToVersion_noDefaultOrdinal(tag) ==
    LET dashParts == split(tag, "-")
        numberStrings == split(dashParts[1], ".")
        numbers == [i \in 1..Len(numberStrings) |-> parseInt(numberStrings[i])]
        preParts == split(dashParts[2], ".")
    IN  IF Len(dashParts) < 2
        THEN Version(Elem(numbers, 1), Elem(numbers, 2), Elem(numbers, 3), MAX_VALUE)
        ELSE IF preParts[1] # <<"p", "r", "e">>
        THEN ProcessExit
        ELSE Version(Elem(numbers, 1), Elem(numbers, 2), Elem(numbers, 3),
                     IF Len(preParts) < 2 THEN NaN ELSE parseInt(preParts[2]))

tagToVersion(tag) ==
    LET dashParts == split(tag, "-")
        numberStrings == split(dashParts[1], ".")
        numbers == [i \in 1..Len(numberStrings) |-> parseInt(numberStrings[i])]
        preParts == split(dashParts[2], ".")
    IN  IF Len(dashParts) < 2
        THEN Version(Elem(numbers, 1), Elem(numbers, 2), Elem(numbers, 3), MAX_VALUE)
        ELSE IF preParts[1] # <<"p", "r", "e">>
        THEN ProcessExit
        ELSE Version(Elem(numbers, 1), Elem(numbers, 2), Elem(numbers, 3),
                     IF Len(preParts) < 2 THEN 0 ELSE parseInt(preParts[2]))

(***************************************************************************)
(* getNextVersion and the four bump tables                                 *)
(***************************************************************************)
Major == 0
Minor == 1
Patch == 2
VersionBumpAction == {Major, Minor, Patch}

\* a prerelease -> prerelease table whose Minor restarts the ordinal
bumpFromPrereleaseToPrerelease_minorRestarts(version, versionBumpAction) ==
    CASE versionBumpAction = Major ->
            IF isAtLeastMajorRelease(version)
            THEN Version(version.major, 0, 0, Inc(version.prerelease))
            ELSE Version(Inc(version.major), 0, 0, 0)
      [] versionBumpAction = Minor ->
            IF isAtLeastMinorRelease(version)
            THEN Version(version.major, version.minor, 0, 0)
            ELSE Version(version.major, Inc(version.minor), 0, 0)
      [] versionBumpAction = Patch ->
            IF isAtLeastPatchRelease(version)
            THEN Version(version.major, version.minor, version.patch, Inc(version.prerelease))
            ELSE Version(version.major, version.minor, Inc(version.patch), 0)
      [] OTHER -> ProcessExit

bumpFromPrereleaseToPrerelease(version, versionBumpAction) ==
    CASE versionBumpAction = Major ->
            IF isAtLeastMajorRelease(version)
            THEN Version(version.major, 0, 0, Inc(version.prerelease))
            ELSE Version(Inc(version.major), 0, 0, 0)
      [] versionBumpAction = Minor ->
            IF isAtLeastMinorRelease(version)
            THEN Version(version.major, version.minor, 0, Inc(version.prerelease))
            ELSE Version(version.major, Inc(version.minor), 0, 0)
      [] versionBumpAction = Patch ->
            IF isAtLeastPatchRelease(version)
            THEN Version(version.major, version.minor, version.patch, Inc(version.prerelease))
            ELSE Version(version.major, version.minor, Inc(version.patch), 0)
      [] OTHER -> ProcessExit

\* a prerelease -> release table whose Major bumps without the at-least test
bumpFromPrereleaseToRelease_majorAlwaysBumps(version, versionBumpAction) ==
    CASE versionBumpAction = Major -> Version(Inc(version.major), 0, 0, MAX_VALUE)
      [] versionBumpAction = Minor ->
            IF isAtLeastMinorRelease(version)
            THEN Version(version.major, version.minor, 0, MAX_VALUE)
            ELSE Version(version.major, Inc(version.minor), 0, MAX_VALUE)
      [] versionBumpAction = Patch ->
            IF isAtLeastPatchRelease(version)
            THEN Version(version.major, version.minor, version.patch, MAX_VALUE)
            ELSE Version(version.major, version.minor, Inc(version.patch), MAX_VALUE)
      [] OTHER -> ProcessExit

\* a prerelease -> release table whose Minor increment leaves patch alone
bumpFromPrereleaseToRelease_minorKeepsPatch(version, versionBumpAction) ==
    CASE versionBumpAction = Major ->
            IF isAtLeastMajorRelease(version)
            THEN Version(version.major, 0, 0, MAX_VALUE)
            ELSE Version(Inc(version.major), 0, 0, MAX_VALUE)
      [] versionBumpAction = Minor ->
            IF isAtLeastMinorRelease(version)
            THEN Version(version.major, version.minor, 0, MAX_VALUE)
            ELSE Version(version.major, Inc(version.minor), version.patch, MAX_VALUE)
      [] versionBumpAction = Patch ->
            IF isAtLeastPatchRelease(version)
            THEN Version(version.major, version.minor, version.patch, MAX_VALUE)
            ELSE Version(version.major, version.minor, Inc(version.patch), MAX_VALUE)
      [] OTHER -> ProcessExit

bumpFromPrereleaseToRelease(version, versionBumpAction) ==
    CASE versionBumpAction = Major ->
            IF isAtLeastMajorRelease(version)
            THEN Version(version.major, 0, 0, MAX_VALUE)
            ELSE Version(Inc(version.major), 0, 0, MAX_VALUE)
      [] versionBumpAction = Minor ->
            IF isAtLeastMinorRelease(version)
            THEN Version(version.major, version.minor, 0, MAX_VALUE)
            ELSE Version(version.major, Inc(version.minor), 0, MAX_VALUE)
      [] versionBumpAction = Patch ->
            IF isAtLeastPatchRelease(version)
            THEN Version(version.major, version.minor, version.patch, MAX_VALUE)
            ELSE Version(version.major, version.minor, Inc(version.patch), MAX_VALUE)
      [] OTHER -> ProcessExit

\* a release -> prerelease table whose Major leaves minor and patch alone
bumpFromReleaseToPrerelease_majorKeepsLower(version, versionBumpAction) ==
    CASE versionBumpAction = Major ->
            Version(Inc(version.major), version.minor, version.patch, 0)
      [] versionBumpAction = Minor -> Version(version.major, Inc(version.minor), 0, 0)
      [] versionBumpAction = Patch ->
            Version(version.major, version.minor, Inc(version.patch), 0)
      [] OTHER -> ProcessExit

bumpFromReleaseToPrerelease(version, versionBumpAction) ==
    CASE versionBumpAction = Major -> Version(Inc(version.major), 0, 0, 0)
      [] versionBumpAction = Minor -> Version(version.major, Inc(version.minor), 0, 0)
      [] versionBumpAction = Patch ->
            Version(version.major, version.minor, Inc(version.patch), 0)
      [] OTHER -> ProcessExit

\* a release -> release table whose Minor leaves patch alone
bumpFromReleaseToRelease_minorKeepsPatch(version, versionBumpAction) ==
    CASE versionBumpAction = Major -> Version(Inc(version.major), 0, 0, MAX_VALUE)
      [] versionBumpAction = Minor ->
            Version(version.major, Inc(version.minor), version.patch, MAX_VALUE)
      [] versionBumpAction = Patch ->
            Version(version.major, version.minor, Inc(version.patch), MAX_VALUE)
      [] OTHER -> ProcessExit

bumpFromReleaseToRelease(version, versionBumpAction) ==
    CASE versionBumpAction = Major -> Version(Inc(version.major), 0, 0, MAX_VALUE)
      [] versionBumpAction = Minor ->
            Version(version.major, Inc(version.minor), 0, MAX_VALUE)
      [] versionBumpAction = Patch ->
            Version(version.major, version.minor, Inc(version.patch), MAX_VALUE)
      [] OTHER -> ProcessExit

\* getNextVersion that keeps the finality of the version it is given
getNextVersion_ignoresTarget(version, versionBumpAction, prerelease) ==
    IF isPreRelease(version)
    THEN bumpFromPrereleaseToPrerelease(version, versionBumpAction)
    ELSE bumpFromReleaseToRelease(version, versionBumpAction)

getNextVersion(version, versionBumpAction, prerelease) ==
    IF isPreRelease(version)
    THEN IF prerelease
         THEN bumpFromPrereleaseToPrerelease(version, versionBumpAction)
         ELSE bumpFromPrereleaseToRelease(version, versionBumpAction)
    ELSE IF prerelease
         THEN bumpFromReleaseToPrerelease(version, versionBumpAction)
         ELSE bumpFromReleaseToRelease(version, versionBumpAction)

(***************************************************************************)
(* State.                                                                  *)
(*   call      the application of a Version function under study           *)
(*   the rest  one run of main(): see the run section below                *)
(***************************************************************************)
VARIABLES call, pc, inputs, requests, response, failed, message, outputs,
          versionBumpAction, versions, latestReleaseVersion, targetVersion,
          targetPrerelease, nextVersion

runVars == <<pc, inputs, requests, response, failed, message, outputs, versionBumpAction,
             versions, latestReleaseVersion, targetVersion, targetPrerelease,
             nextVersion>>
vars == <<call, pc, inputs, requests, response, failed, message, outputs, versionBumpAction,
          versions, latestReleaseVersion, targetVersion, targetPrerelease,
          nextVersion>>

(***************************************************************************)
(* Inputs of the Version functions.                                        *)
(***************************************************************************)
\* the versions of the data model: non-negative components, and an ordinal
\* or the final sentinel
Versions == {Version(ma, mi, pa, pr) :
                ma \in 0..MaxNum, mi \in 0..MaxNum, pa \in 0..MaxNum,
                pr \in (0..MaxPre) \cup {MAX_VALUE}}

\* decimal numerals, one of them written with a leading zero
Numerals == {NumberToString(n) : n \in 0..MaxNum} \cup {<<"0", "1">>}

VersionParts ==
    {a \o <<".">> \o b \o <<".">> \o c : a \in Numerals, b \in Numerals, c \in Numerals}
    \cup {a \o <<".">> \o b : a \in Numerals, b \in Numerals}

Suffixes ==
    {<<>>, <<"-", "p", "r", "e">>}
    \cup {<<"-", "p", "r", "e", ".">> \o n : n \in Numerals}
    \cup { <<"-", "p", "r", "e", ".", "x">>,
           <<"-", "p", "r", "e", ".", "1", ".", "2">>,
           <<"-", "p", "r", "e", "-", "f", "o", "o">>,
           <<"-", "b", "e", "t", "a", ".", "1">>,
           <<"-", "p", "r", "e", "v">>,
           <<"-">> }

Tags == {vp \o s : vp \in VersionParts, s \in Suffixes}

(***************************************************************************)
(* The Version functions applied to drawn inputs: one application, or a    *)
(* round trip of two, per behaviour.                                       *)
(***************************************************************************)
\* tagToVersion(t)
ParseTag ==
    /\ call.fn = "none"
    /\ \E t \in Tags :
          call' = [fn |-> "tagToVersion", tag |-> t, ret |-> tagToVersion(t)]
    /\ UNCHANGED runVars

\* tagToVersion(t).toTag(), for a t that parsed
FormatParsed ==
    /\ call.fn = "tagToVersion"
    /\ call.ret # ProcessExit
    /\ call' = [fn |-> "tagToVersion.toTag", tag |-> call.tag,
                version |-> call.ret, ret |-> toTag(call.ret)]
    /\ UNCHANGED runVars

\* v.toTag()
FormatVersion ==
    /\ call.fn = "none"
    /\ \E v \in Versions :
          call' = [fn |-> "toTag", version |-> v, ret |-> toTag(v)]
    /\ UNCHANGED runVars

\* tagToVersion(v.toTag())
ParseFormatted ==
    /\ call.fn = "toTag"
    /\ call' = [fn |-> "toTag.tagToVersion", version |-> call.version,
                tag |-> call.ret, ret |-> tagToVersion(call.ret)]
    /\ UNCHANGED runVars

\* a.compare(b)
Compare ==
    /\ call.fn = "none"
    /\ \E a \in Versions, b \in Versions :
          call' = [fn |-> "compare", this |-> a, other |-> b, ret |-> compare(a, b)]
    /\ UNCHANGED runVars

\* getNextVersion(v, action, prerelease)
Bump ==
    /\ call.fn = "none"
    /\ \E v \in Versions, a \in VersionBumpAction, p \in BOOLEAN :
          call' = [fn |-> "getNextVersion", version |-> v, versionBumpAction |-> a,
                   prerelease |-> p, ret |-> getNextVersion(v, a, p)]
    /\ UNCHANGED runVars

(***************************************************************************)
(* One run of main().                                                      *)
(*   pc        "main" before main() runs, the name of the endpoint whose   *)
(*             response the run awaits, or "done"                          *)
(*   inputs    the action's inputs, read once at start-up                  *)
(*   requests  the octokit requests issued so far, in order                *)
(*   response  the response to the outstanding request, once it has come   *)
(*   failed    core.setFailed was called (the run's status is failure)     *)
(*   message   the message of that core.setFailed call, "" before it       *)
(*   outputs   the outputs set with core.setOutput, as the strings the     *)
(*             runner receives; the opaque body is left out                *)
(*   the rest  the locals of release() and promote()                       *)
(***************************************************************************)
\* most tags a listRepositoryTags response carries
MaxTags == 3
\* most pull requests a listAssociatedPullRequests response carries
MaxPRs == 2
\* most labels on one pull request
MaxLabels == 2

\* the value null
null == -3
\* an enum object indexed by "0", "1", ...: the reverse mapping yields the
\* member's name, a string that equals no member
MemberName == -4

ReleaseMode(name) ==
    CASE name = "prerelease" -> 0
      [] name = "release" -> 1
      [] name = "promote" -> 2
      [] name \in {"0", "1", "2"} -> MemberName
      [] OTHER -> undefined

\* a lookup that takes every unknown name for norelease
VersionBump_unknownIsNorelease(name) ==
    CASE name = "prlabel" -> 0
      [] name = "major" -> 2
      [] name = "minor" -> 3
      [] name = "patch" -> 4
      [] OTHER -> 1

VersionBump(name) ==
    CASE name = "prlabel" -> 0
      [] name = "norelease" -> 1
      [] name = "major" -> 2
      [] name = "minor" -> 3
      [] name = "patch" -> 4
      [] name \in {"0", "1", "2", "3", "4"} -> MemberName
      [] OTHER -> undefined

versionBump == VersionBump(inputs.versionBump)
releaseMode == ReleaseMode(inputs.releaseMode)

NoVersion == [none |-> TRUE]
NoRelease == [none |-> TRUE]
NoResponse == [kind |-> "none"]
NoOutputs == [release_created |-> "unset", tag_name |-> <<>>, prerelease |-> "unset",
              publish_version |-> <<>>, release_type |-> "unset"]

ReleaseModeInputs == {"prerelease", "release", "promote", "bogus", "0"}
VersionBumpInputs == {"prlabel", "norelease", "major", "minor", "patch", "", "bogus"}
PromoteFromInputs ==
    { <<>>,
      <<"1", ".", "0", ".", "0", "-", "p", "r", "e", ".", "1">>,
      <<"1", ".", "2", ".", "3", "-", "p", "r", "e", ".", "2">>,
      <<"1", ".", "1", ".", "0">>,
      <<"1", ".", "0", ".", "0", "-", "p", "r", "e", ".", "x">>,
      <<"1", ".", "0", ".", "0", "-", "b", "e", "t", "a", ".", "1">> }

\* tag names a repository may carry
RepoTagPool ==
    { <<"1", ".", "0", ".", "0">>,
      <<"1", ".", "1", ".", "0">>,
      <<"1", ".", "1", ".", "0", "-", "p", "r", "e">>,
      <<"1", ".", "0", ".", "0", "-", "p", "r", "e">>,
      <<"1", ".", "0", ".", "0", "-", "p", "r", "e", ".", "1">>,
      <<"1", ".", "0", ".", "0", "-", "p", "r", "e", ".", "x">>,
      <<"0", ".", "1", ".", "2", "-", "b", "e", "t", "a", ".", "1">> }

LabelNames == {"release:major", "release:minor", "release:patch", "bug"}

SeqsUpTo(S, n) == UNION {[1..k -> S] : k \in 0..n}

TagLists == SeqsUpTo(RepoTagPool, MaxTags)
\* label lists of the pull requests that follow the first in a response
FurtherPullRequests == {<<>>, <<"release:major">>, <<"release:patch", "bug">>}

PullRequestLists ==
    {<<>>} \cup {<<first>> \o further :
                    first \in SeqsUpTo(LabelNames, MaxLabels),
                    further \in SeqsUpTo(FurtherPullRequests, MaxPRs - 1)}

BoolString(b) == IF b THEN "true" ELSE "false"

RECURSIVE reduceLatest(_, _)
reduceLatest(prev, rest) ==
    IF rest = <<>> THEN prev
    ELSE reduceLatest(IF greaterThan(prev, Head(rest)) THEN prev ELSE Head(rest),
                      Tail(rest))

\* findLatestVersion that takes 0.0.0 for the latest of no versions
findLatestVersion_emptyIsZero(vs, prereleaseOnly) ==
    LET filteredVersions == IF prereleaseOnly THEN SelectSeq(vs, isPreRelease) ELSE vs
    IN  IF Len(filteredVersions) = 0 THEN Version(0, 0, 0, MAX_VALUE)
        ELSE reduceLatest(Head(filteredVersions), Tail(filteredVersions))

\* findLatestVersion without its filter: the maximum of all versions
findLatestVersion_allTags(vs, prereleaseOnly) ==
    IF Len(vs) = 0 THEN NoVersion ELSE reduceLatest(Head(vs), Tail(vs))

findLatestVersion(vs, prereleaseOnly) ==
    LET filteredVersions == IF prereleaseOnly THEN SelectSeq(vs, isPreRelease) ELSE vs
    IN  IF Len(filteredVersions) = 0 THEN NoVersion
        ELSE reduceLatest(Head(filteredVersions), Tail(filteredVersions))

\* the labels of a pull request mapped to bump actions, the others dropped
LabelAction(label) ==
    CASE label = "release:major" -> Major
      [] label = "release:minor" -> Minor
      [] label = "release:patch" -> Patch
      [] OTHER -> null

\* the mapped labels with nothing dropped
LabelActions_nothingDropped(labels) ==
    [i \in 1..Len(labels) |-> LabelAction(labels[i])]

LabelActions(labels) ==
    SelectSeq([i \in 1..Len(labels) |-> LabelAction(labels[i])], LAMBDA a : a # null)

\* a stop that leaves the run where it is
Stop_noExit(f, out) ==
    /\ pc' = pc
    /\ failed' = f
    /\ outputs' = out
    /\ requests' = requests
    /\ response' = NoResponse
\* the next-state of the run's control: stop, or issue a request and await
Stop(f, out) ==
    /\ pc' = "done"
    /\ failed' = f
    /\ outputs' = out
    /\ requests' = requests
    /\ response' = NoResponse

\* the message is recorded but the run's status is left successful
Fail_statusKept(msg) == Stop(FALSE, outputs) /\ message' = msg

\* core.setFailed(msg), then return or process.exit(1)
Fail(msg) == Stop(TRUE, outputs) /\ message' = msg

Issue(req) ==
    /\ pc' = req.op
    /\ requests' = Append(requests, req)
    /\ response' = NoResponse
    /\ UNCHANGED <<failed, message, outputs>>

\* doRelease(version) sending its request twice
IssueCreateRelease_twice(v) ==
    /\ pc' = "createRelease"
    /\ requests' = requests \o
          <<[op |-> "createRelease", tag_name |-> toTag(v), prerelease |-> isPreRelease(v)],
            [op |-> "createRelease", tag_name |-> toTag(v), prerelease |-> isPreRelease(v)]>>
    /\ response' = NoResponse
    /\ UNCHANGED <<failed, message, outputs>>
\* doRelease(version) up to its await
IssueCreateRelease(v) ==
    Issue([op |-> "createRelease", tag_name |-> toTag(v), prerelease |-> isPreRelease(v)])

\* release(prerelease) without the early return on a null action
ReleaseWithAction_noEarlyReturn(action) ==
    /\ Issue([op |-> "listRepositoryTags"])
    /\ versionBumpAction' = action

\* release(prerelease) from the point where getVersionBumpAction() returned
ReleaseWithAction(action) ==
    IF action = null
    THEN /\ Stop(FALSE, [outputs EXCEPT !.release_created = "false"])
         /\ UNCHANGED message
         /\ versionBumpAction' = null
    ELSE /\ Issue([op |-> "listRepositoryTags"])
         /\ versionBumpAction' = action

\* main(), with release() or promote() up to the first await
Main ==
    /\ pc = "main"
    /\ IF releaseMode = undefined
       THEN Fail("Invalid release_mode") /\ UNCHANGED <<versionBumpAction, targetVersion>>
       ELSE IF releaseMode \in {0, 1} /\ versionBump = null
       THEN Fail("version_bump must be one of") /\ UNCHANGED <<versionBumpAction, targetVersion>>
       ELSE IF releaseMode # 2 /\ inputs.promoteFrom # <<>>
       THEN Fail("promote_from was specified but release_mode was not promote") /\ UNCHANGED <<versionBumpAction, targetVersion>>
       ELSE IF releaseMode \in {0, 1}
       THEN /\ UNCHANGED targetVersion
            /\ CASE versionBump = 1 -> ReleaseWithAction(null)
                 [] versionBump = 0 ->
                       /\ Issue([op |-> "listAssociatedPullRequests"])
                       /\ UNCHANGED versionBumpAction
                 [] versionBump = 2 -> ReleaseWithAction(Major)
                 [] versionBump = 3 -> ReleaseWithAction(Minor)
                 [] versionBump = 4 -> ReleaseWithAction(Patch)
                 [] OTHER -> Fail("Unhandled version bump mode") /\ UNCHANGED versionBumpAction
       ELSE IF releaseMode = 2
       THEN /\ UNCHANGED versionBumpAction
            /\ IF inputs.promoteFrom = <<>>
               THEN Issue([op |-> "listRepositoryTags"]) /\ UNCHANGED targetVersion
               ELSE IF tagToVersion(inputs.promoteFrom) = ProcessExit
               THEN Fail("Invalid prerelease tag") /\ UNCHANGED targetVersion
               ELSE /\ targetVersion' = tagToVersion(inputs.promoteFrom)
                    /\ Issue([op |-> "getReleaseByTag",
                              tag |-> toTag(tagToVersion(inputs.promoteFrom))])
       ELSE Fail("Unhandled release mode") /\ UNCHANGED <<versionBumpAction, targetVersion>>
    /\ UNCHANGED <<call, inputs, versions, latestReleaseVersion, targetPrerelease,
                   nextVersion>>

(***************************************************************************)
(* The collaborator answers the outstanding request.                       *)
(***************************************************************************)
Awaiting(op) == pc = op /\ response = NoResponse

Respond(r) ==
    /\ response' = r
    /\ UNCHANGED <<call, pc, inputs, requests, failed, message, outputs, versionBumpAction,
                   versions, latestReleaseVersion, targetVersion, targetPrerelease,
                   nextVersion>>

PullRequestsListed ==
    /\ Awaiting("listAssociatedPullRequests")
    /\ \E prs \in PullRequestLists : Respond([kind |-> "ok", data |-> prs])

TagsListed ==
    /\ Awaiting("listRepositoryTags")
    /\ \E tags \in TagLists : Respond([kind |-> "ok", data |-> tags])

\* the release stored under the requested tag, or a response without data
ReleaseFetched ==
    /\ Awaiting("getReleaseByTag")
    /\ \/ Respond([kind |-> "nodata"])
       \/ \E pre \in BOOLEAN, draft \in BOOLEAN :
             Respond([kind |-> "ok",
                      data |-> [tag_name |-> requests[Len(requests)].tag,
                                prerelease |-> pre, draft |-> draft]])

\* the created release carries the tag and the flag it was requested with
ReleaseCreated ==
    /\ Awaiting("createRelease")
    /\ Respond([kind |-> "ok",
                data |-> [tag_name |-> requests[Len(requests)].tag_name,
                          prerelease |-> requests[Len(requests)].prerelease]])

\* any request may be rejected: octokit.request throws
RequestRejected ==
    /\ pc \notin {"main", "done"}
    /\ response = NoResponse
    /\ Respond([kind |-> "error"])

(***************************************************************************)
(* The run resumes with the response.                                      *)
(***************************************************************************)
\* the rejected request is issued again
OnRejected_retries ==
    /\ pc \notin {"main", "done"}
    /\ response = [kind |-> "error"]
    /\ Issue(requests[Len(requests)])
    /\ UNCHANGED <<call, inputs, versionBumpAction, versions, latestReleaseVersion,
                   targetVersion, targetPrerelease, nextVersion>>

\* main().catch: the rejection propagates out of every await
OnRejected ==
    /\ pc \notin {"main", "done"}
    /\ response = [kind |-> "error"]
    /\ Fail("err.message")
    /\ UNCHANGED <<call, inputs, versionBumpAction, versions, latestReleaseVersion,
                   targetVersion, targetPrerelease, nextVersion>>

\* the labels are taken from the last associated pull request
OnPullRequests_lastPr ==
    /\ pc = "listAssociatedPullRequests"
    /\ response.kind = "ok"
    /\ LET associatedPrs == response.data
           versionBumpActions == LabelActions(associatedPrs[Len(associatedPrs)])
       IN  IF Len(associatedPrs) = 0 THEN ReleaseWithAction(null)
           ELSE IF Len(versionBumpActions) = 0 THEN ReleaseWithAction(null)
           ELSE IF Len(versionBumpActions) > 1 THEN ReleaseWithAction(null)
           ELSE ReleaseWithAction(versionBumpActions[1])
    /\ UNCHANGED <<call, inputs, versions, latestReleaseVersion, targetVersion,
                   targetPrerelease, nextVersion>>
\* getVersionBumpActionFromPRLabel() after its await, then release()
OnPullRequests ==
    /\ pc = "listAssociatedPullRequests"
    /\ response.kind = "ok"
    /\ LET associatedPrs == response.data
           versionBumpActions == LabelActions(associatedPrs[1])
       IN  IF Len(associatedPrs) = 0 THEN ReleaseWithAction(null)
           ELSE IF Len(versionBumpActions) = 0 THEN ReleaseWithAction(null)
           ELSE IF Len(versionBumpActions) > 1 THEN ReleaseWithAction(null)
           ELSE ReleaseWithAction(versionBumpActions[1])
    /\ UNCHANGED <<call, inputs, versions, latestReleaseVersion, targetVersion,
                   targetPrerelease, nextVersion>>

\* getRepoTags() after its await, then release() or promote()
OnTags ==
    /\ pc = "listRepositoryTags"
    /\ response.kind = "ok"
    /\ LET tags == response.data
           parsed == [i \in 1..Len(tags) |-> tagToVersion(tags[i])]
       IN  IF \E i \in 1..Len(tags) : parsed[i] = ProcessExit
           THEN /\ Fail("Invalid prerelease tag")
                /\ UNCHANGED <<versions, latestReleaseVersion, targetVersion, nextVersion>>
           ELSE IF releaseMode = 2
           THEN LET target == findLatestVersion(parsed, TRUE)
                IN  /\ versions' = parsed
                    /\ targetVersion' = target
                    /\ UNCHANGED <<latestReleaseVersion, nextVersion>>
                    /\ IF target = NoVersion
                       THEN Fail("No version found.")
                       ELSE Issue([op |-> "getReleaseByTag", tag |-> toTag(target)])
           ELSE LET latest == findLatestVersion(parsed, FALSE)
                    next == getNextVersion(latest, versionBumpAction, releaseMode = 0)
                IN  /\ versions' = parsed
                    /\ latestReleaseVersion' = latest
                    /\ UNCHANGED targetVersion
                    /\ IF latest = NoVersion
                       THEN Fail("No releases found.") /\ UNCHANGED nextVersion
                       ELSE nextVersion' = next /\ IssueCreateRelease(next)
    /\ UNCHANGED <<call, inputs, versionBumpAction, targetPrerelease>>

\* promote() after getReleaseFromTag()
OnRelease ==
    /\ pc = "getReleaseByTag"
    /\ response.kind \in {"ok", "nodata"}
    /\ IF response.kind = "nodata"
       THEN Fail("No prerelease found.") /\ UNCHANGED <<targetPrerelease, nextVersion>>
       ELSE /\ targetPrerelease' = response.data
            /\ IF ~response.data.prerelease
               THEN Fail("The specified release is not a prerelease.") /\ UNCHANGED nextVersion
               ELSE LET latestPrereleaseVersion == tagToVersion(response.data.tag_name)
                        next == getNextVersion(latestPrereleaseVersion, Patch, FALSE)
                    IN  IF latestPrereleaseVersion = ProcessExit
                        THEN Fail("Invalid prerelease tag") /\ UNCHANGED nextVersion
                        ELSE nextVersion' = next /\ IssueCreateRelease(next)
    /\ UNCHANGED <<call, inputs, versionBumpAction, versions, latestReleaseVersion,
                   targetVersion>>

\* setReleaseOutputs(nextVersion, newReleaseData)
OnCreated ==
    /\ pc = "createRelease"
    /\ response.kind = "ok"
    /\ Stop(failed, [release_created |-> "true",
                     tag_name |-> response.data.tag_name,
                     prerelease |-> BoolString(response.data.prerelease),
                     publish_version |-> toPublishVersion(nextVersion),
                     release_type |-> IF response.data.prerelease THEN "beta"
                                      ELSE "release"])
    /\ UNCHANGED <<call, inputs, message, versionBumpAction, versions,
                   latestReleaseVersion, targetVersion, targetPrerelease, nextVersion>>

(***************************************************************************)
(* Specifications.                                                         *)
(***************************************************************************)
RunIdle ==
    /\ requests = <<>>
    /\ response = NoResponse
    /\ failed = FALSE
    /\ message = ""
    /\ outputs = NoOutputs
    /\ versionBumpAction = null
    /\ versions = <<>>
    /\ latestReleaseVersion = NoVersion
    /\ targetVersion = NoVersion
    /\ targetPrerelease = NoRelease
    /\ nextVersion = NoVersion

\* a run of the action on some inputs
Init ==
    /\ call = [fn |-> "none"]
    /\ pc = "main"
    /\ inputs \in [versionBump : VersionBumpInputs, releaseMode : ReleaseModeInputs,
                   promoteFrom : PromoteFromInputs]
    /\ RunIdle

Next ==
    \/ Main
    \/ PullRequestsListed
    \/ TagsListed
    \/ ReleaseFetched
    \/ ReleaseCreated
    \/ RequestRejected
    \/ OnRejected
    \/ OnPullRequests
    \/ OnTags
    \/ OnRelease
    \/ OnCreated

Spec == Init /\ [][Next]_vars

\* some answer to the outstanding request arrives
Answered ==
    \/ PullRequestsListed
    \/ TagsListed
    \/ ReleaseFetched
    \/ ReleaseCreated
    \/ RequestRejected

\* the run resumes from its await
Resumed ==
    \/ OnRejected
    \/ OnPullRequests
    \/ OnTags
    \/ OnRelease
    \/ OnCreated

\* a response waits for the run to resume: ENABLED <<Resumed>>_vars
ResponsePending ==
    /\ pc \in {"listAssociatedPullRequests", "listRepositoryTags", "getReleaseByTag",
               "createRelease"}
    /\ response # NoResponse

\* a run whose requests are all answered in the end and whose continuations
\* are all run by the event loop: weak fairness of Main, Answered and
\* Resumed, that of Main and Resumed written out with the state predicates
\* that ENABLED <<Main>>_vars and ENABLED <<Resumed>>_vars equal
FairSpec ==
    /\ Init /\ [][Next]_vars
    /\ []<>(pc # "main") \/ []<><<Main>>_vars
    /\ WF_vars(Answered)
    /\ []<>(~ResponsePending) \/ []<><<Resumed>>_vars

\* most prerelease runs that follow the one that opens a line
MaxBumps == 2

\* successive runs of release(): each finds as latest version the one the
\* run before it created, and calls getNextVersion with the same action
OpenLine ==
    /\ call.fn = "none"
    /\ \E v \in Versions, a \in VersionBumpAction :
          /\ ~isPreRelease(v)
          /\ call' = [fn |-> "line", from |-> v, versionBumpAction |-> a,
                      opened |-> getNextVersion(v, a, TRUE), bumps |-> 0,
                      ret |-> getNextVersion(v, a, TRUE)]
    /\ UNCHANGED runVars

ContinueLine ==
    /\ call.fn = "line"
    /\ isPreRelease(call.ret)
    /\ call.bumps < MaxBumps
    /\ call' = [call EXCEPT !.bumps = @ + 1,
                            !.ret = getNextVersion(call.ret, call.versionBumpAction, TRUE)]
    /\ UNCHANGED runVars

CloseLine ==
    /\ call.fn = "line"
    /\ isPreRelease(call.ret)
    /\ call' = [call EXCEPT !.ret = getNextVersion(call.ret, call.versionBumpAction, FALSE)]
    /\ UNCHANGED runVars

\* the Version functions on their own, no run in progress
VersionInit ==
    /\ call = [fn |-> "none"]
    /\ pc = "done"
    /\ inputs = [versionBump |-> "", releaseMode |-> "", promoteFrom |-> <<>>]
    /\ RunIdle

VersionNext ==
    \/ ParseTag
    \/ FormatParsed
    \/ FormatVersion
    \/ ParseFormatted
    \/ Compare
    \/ Bump
    \/ OpenLine
    \/ ContinueLine
    \/ CloseLine

VersionSpec == VersionInit /\ [][VersionNext]_vars

(***************************************************************************)
(* Properties of tag (de)serialization.                                    *)
(***************************************************************************)
\* a decimal numeral without leading zeros
Canonical(s) ==
    /\ Len(s) >= 1
    /\ \A i \in 1..Len(s) : IsDigit(s[i])
    /\ Len(s) > 1 => s[1] # "0"

\* M.N.P
IsCore(s) ==
    \E i \in 1..Len(s), j \in 1..Len(s) :
        /\ i < j
        /\ s[i] = "." /\ s[j] = "."
        /\ Canonical(SubSeq(s, 1, i - 1))
        /\ Canonical(SubSeq(s, i + 1, j - 1))
        /\ Canonical(SubSeq(s, j + 1, Len(s)))

HasSuffix(t) == \E d \in 1..Len(t) : t[d] = "-"
FirstDash(t) == CHOOSE d \in 1..Len(t) : t[d] = "-" /\ \A e \in 1..(d - 1) : t[e] # "-"
\* what precedes and what follows the first '-'
BeforeSuffix(t) == SubSeq(t, 1, FirstDash(t) - 1)
SuffixOf(t) == SubSeq(t, FirstDash(t) + 1, Len(t))

IsPreOrdinal(sfx, ordinalOk(_)) ==
    /\ Len(sfx) > 4
    /\ SubSeq(sfx, 1, 4) = <<"p", "r", "e", ".">>
    /\ ordinalOk(SubSeq(sfx, 5, Len(sfx)))

\* the forms M.N.P, M.N.P-pre and M.N.P-pre.K
ValidTag(t) ==
    \/ IsCore(t)
    \/ /\ HasSuffix(t)
       /\ IsCore(BeforeSuffix(t))
       /\ \/ SuffixOf(t) = <<"p", "r", "e">>
          \/ IsPreOrdinal(SuffixOf(t), Canonical)

\* the same forms with K >= 1: the strings toTag writes
SerializedTag(t) ==
    /\ ValidTag(t)
    /\ HasSuffix(t) => SuffixOf(t) # <<"p", "r", "e", ".", "0">>

\* C1 as stated: every tag of the forms M.N.P, M.N.P-pre, M.N.P-pre.K parses,
\* and serializing the parsed version gives the tag back.
C1_AnyValidTagRoundTrips ==
    /\ (call.fn = "tagToVersion" /\ ValidTag(call.tag)) => call.ret # ProcessExit
    /\ (call.fn = "tagToVersion.toTag" /\ ValidTag(call.tag)) => call.ret = call.tag

\* C1 amended: every tag of the forms M.N.P, M.N.P-pre, M.N.P-pre.K with K >= 1
\* parses, and serializing the parsed version gives the tag back.
C1_SerializedTagRoundTrips ==
    /\ (call.fn = "tagToVersion" /\ SerializedTag(call.tag)) => call.ret # ProcessExit
    /\ (call.fn = "tagToVersion.toTag" /\ SerializedTag(call.tag)) => call.ret = call.tag

C1_Witness ==
    /\ call.fn = "tagToVersion.toTag"
    /\ SerializedTag(call.tag)
    /\ call.version = Version(1, 0, 2, 2)

\* C2: for every valid version v, parsing v's tag gives back v in all four
\* components.
C2_VersionRoundTrips ==
    call.fn = "toTag.tagToVersion" =>
        /\ call.ret # ProcessExit
        /\ call.ret.major = call.version.major
        /\ call.ret.minor = call.version.minor
        /\ call.ret.patch = call.version.patch
        /\ call.ret.prerelease = call.version.prerelease

C2_Witness ==
    /\ call.fn = "toTag.tagToVersion"
    /\ call.version = Version(2, 0, 1, 0)
    /\ call.tag = <<"2", ".", "0", ".", "1", "-", "p", "r", "e">>

\* C4: parsing fails whenever a suffix after '-' is present and is not 'pre'
\* or 'pre.K' with K a non-negative integer; a tag without suffix parses as a
\* final release and '-pre' alone as prerelease ordinal 0.
C4_BadSuffixFails ==
    call.fn = "tagToVersion" =>
        /\ ( /\ HasSuffix(call.tag)
             /\ SuffixOf(call.tag) # <<"p", "r", "e">>
             /\ ~IsPreOrdinal(SuffixOf(call.tag),
                              LAMBDA k : \A i \in 1..Len(k) : IsDigit(k[i])) )
           => call.ret = ProcessExit
        /\ ~HasSuffix(call.tag) =>
              call.ret # ProcessExit /\ call.ret.prerelease = MAX_VALUE
        /\ (HasSuffix(call.tag) /\ SuffixOf(call.tag) = <<"p", "r", "e">>) =>
              call.ret # ProcessExit /\ call.ret.prerelease = 0

(***************************************************************************)
(* Properties of the ordering.                                             *)
(***************************************************************************)
IsFinal(v) == v.prerelease = MAX_VALUE
SameRelease(a, b) == a.major = b.major /\ a.minor = b.minor /\ a.patch = b.patch
\* (major, minor, patch) of a lexicographically below that of b
ReleaseBelow(a, b) ==
    \/ a.major < b.major
    \/ a.major = b.major /\ a.minor < b.minor
    \/ a.major = b.major /\ a.minor = b.minor /\ a.patch < b.patch

\* C3: compare is a total order on the 4-tuple: reflexive, antisymmetric,
\* transitive, 0 only for equal tuples; a final release is above every
\* prerelease of the same (major, minor, patch) and below every version with
\* a larger (major, minor, patch).
C3_CompareTotalOrder ==
    call.fn = "compare" =>
        /\ call.ret \in {-1, 0, 1}
        /\ call.this = call.other => call.ret = 0
        /\ call.ret = 0 => call.this = call.other
        /\ call.ret = 0 - compare(call.other, call.this)
        /\ \A c \in Versions :
              (call.ret >= 0 /\ compare(call.other, c) >= 0) => compare(call.this, c) >= 0
        /\ (SameRelease(call.this, call.other) /\ IsFinal(call.this) /\ ~IsFinal(call.other))
              => call.ret = 1
        /\ (IsFinal(call.this) /\ ReleaseBelow(call.this, call.other)) => call.ret = -1

C3_Witness ==
    /\ call.fn = "compare"
    /\ call.this = Version(1, 2, 0, MAX_VALUE)
    /\ call.other = Version(1, 2, 0, 1)
    /\ call.ret = 1

(***************************************************************************)
(* Properties of the four bump tables.                                     *)
(***************************************************************************)
\* the application getNextVersion(v, a, p) at hand
Bumped(fromFinal, toPrerelease) ==
    /\ call.fn = "getNextVersion"
    /\ IsFinal(call.version) = fromFinal
    /\ call.prerelease = toPrerelease

\* C5: a final (M,N,P) bumped towards a release gives the final (M+1,0,0)
\* for Major, (M,N+1,0) for Minor, (M,N,P+1) for Patch.
C5_ReleaseToRelease ==
    Bumped(TRUE, FALSE) =>
        LET v == call.version
        IN  call.ret = CASE call.versionBumpAction = Major ->
                                Version(v.major + 1, 0, 0, MAX_VALUE)
                         [] call.versionBumpAction = Minor ->
                                Version(v.major, v.minor + 1, 0, MAX_VALUE)
                         [] call.versionBumpAction = Patch ->
                                Version(v.major, v.minor, v.patch + 1, MAX_VALUE)

C5_Witness ==
    /\ Bumped(TRUE, FALSE)
    /\ call.version = Version(1, 2, 2, MAX_VALUE)
    /\ call.versionBumpAction = Minor
    /\ call.ret = Version(1, 3, 0, MAX_VALUE)

\* C6: a final (M,N,P) bumped towards a prerelease gives ordinal 0 of
\* (M+1,0,0) for Major, of (M,N+1,0) for Minor, of (M,N,P+1) for Patch.
C6_ReleaseToPrerelease ==
    Bumped(TRUE, TRUE) =>
        LET v == call.version
        IN  call.ret = CASE call.versionBumpAction = Major -> Version(v.major + 1, 0, 0, 0)
                         [] call.versionBumpAction = Minor ->
                                Version(v.major, v.minor + 1, 0, 0)
                         [] call.versionBumpAction = Patch ->
                                Version(v.major, v.minor, v.patch + 1, 0)

C6_Witness ==
    /\ Bumped(TRUE, TRUE)
    /\ call.version = Version(1, 2, 0, MAX_VALUE)
    /\ call.versionBumpAction = Patch
    /\ call.ret = Version(1, 2, 1, 0)

\* C7: a prerelease (M,N,P)-pre.k bumped towards a release gives a final
\* version: Major (M,0,0) if minor = 0 and patch = 0, else (M+1,0,0); Minor
\* (M,N,0) if patch = 0, else (M,N+1,0); Patch (M,N,P) if at-least-patch,
\* else (M,N,P+1).
C7_PrereleaseToRelease ==
    Bumped(FALSE, FALSE) =>
        LET v == call.version
        IN  call.ret =
              CASE call.versionBumpAction = Major ->
                       IF v.minor = 0 /\ v.patch = 0
                       THEN Version(v.major, 0, 0, MAX_VALUE)
                       ELSE Version(v.major + 1, 0, 0, MAX_VALUE)
                [] call.versionBumpAction = Minor ->
                       IF v.patch = 0
                       THEN Version(v.major, v.minor, 0, MAX_VALUE)
                       ELSE Version(v.major, v.minor + 1, 0, MAX_VALUE)
                [] call.versionBumpAction = Patch ->
                       IF v.patch = 0 \/ v.patch > 0
                       THEN Version(v.major, v.minor, v.patch, MAX_VALUE)
                       ELSE Version(v.major, v.minor, v.patch + 1, MAX_VALUE)

C7_Witness ==
    /\ Bumped(FALSE, FALSE)
    /\ call.version = Version(1, 0, 0, 0)
    /\ call.versionBumpAction = Major
    /\ call.ret = Version(1, 0, 0, MAX_VALUE)

\* C8: a prerelease (M,N,P)-pre.k bumped towards a prerelease gives: Major
\* (M,0,0)-pre.(k+1) if at-least-major, else (M+1,0,0)-pre.0; Minor
\* (M,N,0)-pre.(k+1) if at-least-minor, else (M,N+1,0)-pre.0; Patch
\* (M,N,P)-pre.(k+1) if at-least-patch, else (M,N,P+1)-pre.0.
C8_PrereleaseToPrerelease ==
    Bumped(FALSE, TRUE) =>
        LET v == call.version
            k == v.prerelease
        IN  call.ret =
              CASE call.versionBumpAction = Major ->
                       IF v.minor = 0 /\ v.patch = 0
                       THEN Version(v.major, 0, 0, k + 1)
                       ELSE Version(v.major + 1, 0, 0, 0)
                [] call.versionBumpAction = Minor ->
                       IF v.patch = 0
                       THEN Version(v.major, v.minor, 0, k + 1)
                       ELSE Version(v.major, v.minor + 1, 0, 0)
                [] call.versionBumpAction = Patch ->
                       IF v.patch = 0 \/ v.patch > 0
                       THEN Version(v.major, v.minor, v.patch, k + 1)
                       ELSE Version(v.major, v.minor, v.patch + 1, 0)

C8_Witness ==
    /\ Bumped(FALSE, TRUE)
    /\ call.version = Version(1, 2, 0, 2)
    /\ call.versionBumpAction = Minor
    /\ call.ret = Version(1, 2, 0, 3)

(***************************************************************************)
(* Properties of a run.                                                    *)
(***************************************************************************)
\* the forms M.N.P-pre and M.N.P-pre.K
PrereleaseTag(t) == ValidTag(t) /\ HasSuffix(t)

LastRequest == requests[Len(requests)]

\* C9: promoting a prerelease (M,N,P)-pre.k requests the final release
\* (M,N,P), whatever version_bump is.
C9_PromotionKeepsRelease ==
    ( /\ releaseMode = 2
      /\ targetPrerelease # NoRelease
      /\ targetPrerelease.prerelease
      /\ PrereleaseTag(targetPrerelease.tag_name) )
    => LET promoted == tagToVersion(targetPrerelease.tag_name)
       IN  /\ nextVersion =
                 Version(promoted.major, promoted.minor, promoted.patch, MAX_VALUE)
           /\ LastRequest = [op |-> "createRelease",
                             tag_name |-> BeforeSuffix(targetPrerelease.tag_name),
                             prerelease |-> FALSE]

C9_Witness ==
    /\ releaseMode = 2
    /\ inputs.versionBump = "major"
    /\ targetPrerelease # NoRelease
    /\ targetPrerelease.prerelease
    /\ targetPrerelease.tag_name = <<"1", ".", "1", ".", "0", "-", "p", "r", "e">>
    /\ outputs.release_created = "true"
    /\ outputs.tag_name = <<"1", ".", "1", ".", "0">>

\* C10: on the prerelease and release paths the version taken as the latest
\* is a member of the parsed tag list and no parsed tag compares greater.
C10_LatestIsMaximum ==
    (releaseMode \in {0, 1} /\ latestReleaseVersion # NoVersion) =>
        /\ \E i \in 1..Len(versions) : versions[i] = latestReleaseVersion
        /\ \A i \in 1..Len(versions) : compare(versions[i], latestReleaseVersion) <= 0

(***************************************************************************)
(* Properties of the promote path.                                         *)
(***************************************************************************)
\* promote() has resolved its target, or has found none
TargetResolved ==
    /\ releaseMode = 2
    /\ targetVersion # NoVersion \/ message = "No version found."

Requested(op) == \E i \in 1..Len(requests) : requests[i].op = op

NumericCore(v) == IsNumber(v.major) /\ IsNumber(v.minor) /\ IsNumber(v.patch)

\* with promote_from given the target is that tag, parsed, and the release
\* looked up is the one under the target's tag
PromoteFromIsTarget ==
    (TargetResolved /\ inputs.promoteFrom # <<>>) =>
        /\ targetVersion = tagToVersion(inputs.promoteFrom)
        /\ requests[1] = [op |-> "getReleaseByTag", tag |-> toTag(targetVersion)]

\* C11 as stated: in promote mode without promote_from the target is the
\* latest version among all the tags, prerelease or not (a member of the tag
\* list that no tag compares greater than); with promote_from it is that tag.
C11_TargetIsLatestOfAllTags ==
    /\ (TargetResolved /\ inputs.promoteFrom = <<>>) =>
          IF versions = <<>> THEN targetVersion = NoVersion
          ELSE /\ targetVersion # NoVersion
               /\ \E i \in 1..Len(versions) : versions[i] = targetVersion
               /\ \A i \in 1..Len(versions) : ~greaterThan(versions[i], targetVersion)
    /\ PromoteFromIsTarget

\* C11, amended: in promote mode without promote_from the target is taken
\* among the tags that are prereleases only: it is one of them, no prerelease
\* tag compares greater when their cores are numeric, and when no tag is a
\* prerelease the run fails with "No version found." before any release is
\* looked up; with promote_from the target is that tag.
C11_TargetIsLatestPrerelease ==
    /\ (TargetResolved /\ inputs.promoteFrom = <<>>) =>
          LET prereleases == SelectSeq(versions, isPreRelease)
          IN  IF prereleases = <<>>
              THEN /\ targetVersion = NoVersion
                   /\ pc = "done" /\ failed /\ message = "No version found."
                   /\ ~Requested("getReleaseByTag") /\ ~Requested("createRelease")
              ELSE /\ \E i \in 1..Len(prereleases) : prereleases[i] = targetVersion
                   /\ requests[2] = [op |-> "getReleaseByTag",
                                     tag |-> toTag(targetVersion)]
                   /\ (\A i \in 1..Len(prereleases) : NumericCore(prereleases[i])) =>
                         \A i \in 1..Len(prereleases) :
                             ~greaterThan(prereleases[i], targetVersion)
    /\ PromoteFromIsTarget

\* a final release tops the list and an older prerelease is the target
C11_Witness ==
    /\ TargetResolved
    /\ inputs.promoteFrom = <<>>
    /\ pc = "getReleaseByTag"
    /\ Len(SelectSeq(versions, isPreRelease)) >= 2
    /\ \E i \in 1..Len(versions) :
          ~isPreRelease(versions[i]) /\ greaterThan(versions[i], targetVersion)

\* C12: in promote mode createRelease is requested only after a release was
\* found under the target's tag that is a prerelease and not a draft; when
\* the release is missing, is not a prerelease or is a draft, the run has
\* stopped and no createRelease was requested.
C12_PromotesOnlyUndraftedPrerelease ==
    releaseMode = 2 =>
        /\ Requested("createRelease") =>
              /\ targetPrerelease # NoRelease
              /\ targetPrerelease.prerelease
              /\ ~targetPrerelease.draft
        /\ message = "No prerelease found." =>
              pc = "done" /\ ~Requested("createRelease")
        /\ (targetPrerelease # NoRelease
              /\ (~targetPrerelease.prerelease \/ targetPrerelease.draft)) =>
              pc = "done" /\ ~Requested("createRelease")

(***************************************************************************)
(* Properties of the bump action taken from pull request labels.           *)
(***************************************************************************)
IsReleaseLabel(label) == label \in {"release:major", "release:minor", "release:patch"}

\* what the labels of the first pull request stand for: null unless exactly
\* one of them is a release label
LabelledAction(prs) ==
    IF Len(prs) = 0 THEN null
    ELSE LET labels == prs[1]
             matching == {i \in 1..Len(labels) : IsReleaseLabel(labels[i])}
         IN  IF Cardinality(matching) # 1 THEN null
             ELSE LET label == labels[CHOOSE i \in matching : TRUE]
                  IN  CASE label = "release:major" -> Major
                        [] label = "release:minor" -> Minor
                        [] label = "release:patch" -> Patch

\* C13: with version_bump=prlabel the action is decided by the number of
\* release labels on the first pull request: no pull request, no release
\* label or more than one release label give no action and the run ends
\* without failing; exactly one gives that label's action and the run goes
\* on to list the tags; the other labels do not matter.
C13_LabelCountDecides ==
    [][ (pc = "listAssociatedPullRequests" /\ response.kind = "ok" /\ pc' # pc) =>
          LET action == LabelledAction(response.data)
          IN  /\ versionBumpAction' = action
              /\ IF action = null
                 THEN /\ pc' = "done" /\ ~failed'
                      /\ outputs'.release_created = "false"
                      /\ requests' = requests
                 ELSE /\ pc' = "listRepositoryTags"
                      /\ requests' = Append(requests, [op |-> "listRepositoryTags"]) ]_vars

\* a label was turned into an action and the run went on
C13_Witness ==
    /\ versionBump = 0
    /\ Requested("listAssociatedPullRequests")
    /\ versionBumpAction = Minor
    /\ Requested("listRepositoryTags")

(***************************************************************************)
(* Properties of the run's outcome.                                        *)
(***************************************************************************)
\* the step at which getVersionBumpAction() returns null to release()
ResolvesToNone ==
    /\ releaseMode \in {0, 1}
    /\ inputs.promoteFrom = <<>>
    /\ \/ pc = "main" /\ versionBump = 1
       \/ /\ pc = "listAssociatedPullRequests"
          /\ response.kind = "ok"
          /\ LabelledAction(response.data) = null
    /\ pc' # pc

\* C14: in prerelease and release mode, when the bump action resolves to
\* none (norelease, or prlabel without exactly one release label) the run
\* ends there with release_created=false and no failure, and neither the
\* tags were listed nor a release created.
C14_NoActionNoRelease ==
    [][ ResolvesToNone =>
          /\ pc' = "done"
          /\ ~failed'
          /\ outputs' = [NoOutputs EXCEPT !.release_created = "false"]
          /\ \A i \in 1..Len(requests') :
                requests'[i].op \notin {"listRepositoryTags", "createRelease"} ]_vars

\* the labels of the pull request gave no action and the run ended
C14_Witness ==
    /\ releaseMode \in {0, 1}
    /\ versionBump = 0
    /\ pc = "done"
    /\ versionBumpAction = null
    /\ requests = <<[op |-> "listAssociatedPullRequests"]>>
    /\ outputs.release_created = "false"
    /\ ~failed

(***************************************************************************)
(* Properties of the handling of errors.                                   *)
(***************************************************************************)
RecognizedReleaseMode == inputs.releaseMode \in {"prerelease", "release", "promote"}
RecognizedVersionBump ==
    inputs.versionBump \in {"prlabel", "norelease", "major", "minor", "patch"}
ConflictingPromoteFrom == inputs.releaseMode # "promote" /\ inputs.promoteFrom # <<>>

\* the run has failed and has made no request
StoppedBeforeAnyCall == pc = "done" /\ failed /\ requests = <<>>

\* C15 as stated: an unrecognized release_mode, an unrecognized version_bump
\* value, or a promote_from given while release_mode is not promote, fails
\* the run before any collaborator call, whatever the release mode.
C15_ConfigErrorsStopFirst ==
    ( /\ pc # "main"
      /\ \/ ~RecognizedReleaseMode
         \/ inputs.versionBump # "" /\ ~RecognizedVersionBump
         \/ ConflictingPromoteFrom )
    => StoppedBeforeAnyCall

\* C15, amended: an unrecognized release_mode, a promote_from given while
\* release_mode is not promote, and an unrecognized or missing version_bump
\* in prerelease or release mode, fail the run before any collaborator call
\* and without any output; in promote mode version_bump is not examined and
\* the run goes on to its first request.
C15_ConfigErrorsStopFirstWhereRead ==
    /\ ( /\ pc # "main"
         /\ \/ ~RecognizedReleaseMode
            \/ ConflictingPromoteFrom
            \/ inputs.releaseMode \in {"prerelease", "release"} /\ ~RecognizedVersionBump )
       => StoppedBeforeAnyCall /\ outputs = NoOutputs /\ message # ""
    /\ (pc # "main" /\ inputs.releaseMode = "promote" /\ inputs.promoteFrom = <<>>)
       => requests # <<>> /\ Head(requests) = [op |-> "listRepositoryTags"]

\* an unknown version_bump stopped a prerelease run at once
C15_Witness ==
    /\ inputs = [versionBump |-> "bogus", releaseMode |-> "prerelease", promoteFrom |-> <<>>]
    /\ StoppedBeforeAnyCall
    /\ message = "Unhandled version bump mode"

\* the steps that meet a condition listed as recoverable
NoUsableLabel ==
    /\ pc = "listAssociatedPullRequests"
    /\ response.kind = "ok"
    /\ LabelledAction(response.data) = null
    /\ pc' # pc

NothingToPromote ==
    /\ pc = "getReleaseByTag"
    /\ \/ response.kind = "nodata"
       \/ response.kind = "ok" /\ ~response.data.prerelease
    /\ pc' # pc

\* C16 as stated: no associated pull request, no release label, several
\* release labels, no prerelease found to promote and a promotion target
\* that is not a prerelease all end the run without failure, with
\* release_created=false and without a createRelease request.
C16_RecoverableConditionsSucceed ==
    [][ (NoUsableLabel \/ NothingToPromote) =>
          /\ pc' = "done"
          /\ ~failed'
          /\ outputs'.release_created = "false"
          /\ \A i \in 1..Len(requests') : requests'[i].op # "createRelease" ]_vars

\* C16, amended: all five conditions end the run without a createRelease
\* request; the three label conditions leave the status successful with
\* release_created=false, the two promote conditions set a failing status
\* with their message and set no output.
C16_RecoverableConditionsStop ==
    [][ /\ NoUsableLabel =>
              /\ pc' = "done"
              /\ ~failed'
              /\ outputs'.release_created = "false"
              /\ \A i \in 1..Len(requests') : requests'[i].op # "createRelease"
        /\ NothingToPromote =>
              /\ pc' = "done"
              /\ failed'
              /\ message' = IF response.kind = "nodata" THEN "No prerelease found."
                            ELSE "The specified release is not a prerelease."
              /\ outputs' = NoOutputs
              /\ \A i \in 1..Len(requests') : requests'[i].op # "createRelease" ]_vars

\* the release to promote turned out not to be a prerelease
C16_Witness ==
    /\ releaseMode = 2
    /\ pc = "done"
    /\ targetPrerelease # NoRelease
    /\ ~targetPrerelease.prerelease
    /\ failed
    /\ message = "The specified release is not a prerelease."
    /\ outputs.release_created = "unset"

\* a request other than createRelease has been rejected and the run resumes
LookupRejected ==
    /\ pc \in {"listAssociatedPullRequests", "listRepositoryTags", "getReleaseByTag"}
    /\ response = [kind |-> "error"]
    /\ pc' # pc

\* C17: when the label lookup, the tag listing or the release lookup fails,
\* the run ends with a failing status and the request log is left as it is:
\* no further request, no createRelease, and no request made twice.
C17_RejectedLookupAborts ==
    /\ [][ LookupRejected =>
             /\ pc' = "done"
             /\ failed'
             /\ requests' = requests
             /\ \A i \in 1..Len(requests') : requests'[i].op # "createRelease" ]_vars
    /\ [](\A i, j \in 1..Len(requests) : requests[i].op = requests[j].op => i = j)
    /\ [][pc = "done" => pc' = "done" /\ requests' = requests]_vars

\* the tag listing was rejected after the label lookup had answered
C17_Witness ==
    /\ pc = "done"
    /\ failed
    /\ message = "err.message"
    /\ requests = <<[op |-> "listAssociatedPullRequests"], [op |-> "listRepositoryTags"]>>

\* a tag with its -pre or -pre.N suffix replaced by -SNAPSHOT
Snapshot(tag) ==
    IF /\ HasSuffix(tag)
       /\ \/ SuffixOf(tag) = <<"p", "r", "e">>
          \/ IsPreOrdinal(SuffixOf(tag), Canonical)
    THEN BeforeSuffix(tag) \o <<"-", "S", "N", "A", "P", "S", "H", "O", "T">>
    ELSE tag

\* C18: release_created=true is reported only by a run that ended after
\* createRelease answered; its outputs are then the tag of the computed
\* version, that tag with -pre or -pre.N replaced by -SNAPSHOT as
\* publish_version, and release_type beta exactly when the created release
\* is a prerelease, release otherwise.
C18_OutputsOfCreatedRelease ==
    /\ outputs.release_created = "true" =>
          /\ pc = "done" /\ ~failed /\ message = ""
          /\ requests # <<>>
          /\ LastRequest.op = "createRelease"
          /\ LastRequest.tag_name = toTag(nextVersion)
          /\ outputs.tag_name = LastRequest.tag_name
          /\ outputs.publish_version = Snapshot(LastRequest.tag_name)
          /\ outputs.prerelease = BoolString(LastRequest.prerelease)
          /\ outputs.release_type =
                IF outputs.prerelease = "true" THEN "beta" ELSE "release"
    /\ pc # "done" => outputs.release_created = "unset"
    /\ failed => outputs.release_created = "unset"

\* a second prerelease of 1.0.0 was published
C18_Witness ==
    /\ outputs.release_created = "true"
    /\ outputs.tag_name = <<"1", ".", "0", ".", "0", "-", "p", "r", "e", ".", "2">>
    /\ outputs.publish_version =
          <<"1", ".", "0", ".", "0", "-", "S", "N", "A", "P", "S", "H", "O", "T">>
    /\ outputs.release_type = "beta"

\* the tag listing answered with no tag at all on the release() path
NoTagsListed ==
    /\ releaseMode \in {0, 1}
    /\ pc = "listRepositoryTags"
    /\ response = [kind |-> "ok", data |-> <<>>]
    /\ pc' # pc

\* C19: in prerelease and release mode with a resolved bump action, a
\* repository without any tag makes the run fail with "No releases found."
\* and no createRelease is requested.
C19_NoTagsFails ==
    [][ NoTagsListed =>
          /\ versionBumpAction \in VersionBumpAction
          /\ pc' = "done"
          /\ failed'
          /\ message' = "No releases found."
          /\ requests' = requests
          /\ \A i \in 1..Len(requests') : requests'[i].op # "createRelease" ]_vars

\* a run with a major bump from a label found no tags
C19_Witness ==
    /\ releaseMode \in {0, 1}
    /\ versionBump = 0
    /\ versionBumpAction = Major
    /\ pc = "done"
    /\ failed
    /\ message = "No releases found."
    /\ versions = <<>>
    /\ ~Requested("createRelease")

\* getNextVersion gives a prerelease exactly when one is targeted, whatever
\* the bump action
TargetDecidesFinality(version) ==
    \A a \in VersionBumpAction, p \in BOOLEAN :
        isPreRelease(getNextVersion(version, a, p)) = p

\* the same of the call made in isolation
BumpTargetDecidesFinality ==
    call.fn = "getNextVersion" => isPreRelease(call.ret) = call.prerelease

\* C20: a createRelease request is for a prerelease exactly when
\* release_mode is prerelease: the version computed by getNextVersion is a
\* prerelease exactly when one is targeted, for the current version of the
\* run and every bump action, and the request carries that version's tag and
\* prerelease flag; release and promote mode request a final release.
C20_PrereleaseOnlyInPrereleaseMode ==
    /\ latestReleaseVersion # NoVersion => TargetDecidesFinality(latestReleaseVersion)
    /\ targetVersion # NoVersion => TargetDecidesFinality(targetVersion)
    /\ Requested("createRelease") =>
          /\ LastRequest.op = "createRelease"
          /\ LastRequest.prerelease = (inputs.releaseMode = "prerelease")
          /\ isPreRelease(nextVersion) = (inputs.releaseMode = "prerelease")
          /\ LastRequest = [op |-> "createRelease", tag_name |-> toTag(nextVersion),
                            prerelease |-> isPreRelease(nextVersion)]
          /\ HasSuffix(LastRequest.tag_name) = (inputs.releaseMode = "prerelease")
          /\ inputs.releaseMode \in {"prerelease", "release"} =>
                nextVersion = getNextVersion(latestReleaseVersion, versionBumpAction,
                                             inputs.releaseMode = "prerelease")

\* a prerelease of the next minor was requested on top of a final release
C20_Witness ==
    /\ inputs.releaseMode = "prerelease"
    /\ pc = "createRelease"
    /\ latestReleaseVersion = Version(1, 1, 0, MAX_VALUE)
    /\ versionBumpAction = Minor
    /\ LastRequest = [op |-> "createRelease",
                      tag_name |-> <<"1", ".", "2", ".", "0", "-", "p", "r", "e">>,
                      prerelease |-> TRUE]

(***************************************************************************)
(* Properties of malformed tags in a run.                                  *)
(***************************************************************************)
\* a non-empty string of decimal digits
Numeral(s) == Len(s) >= 1 /\ \A i \in 1..Len(s) : IsDigit(s[i])

\* M.N.P with integer components
IntegerCore(s) ==
    \E i \in 1..Len(s), j \in 1..Len(s) :
        /\ i < j
        /\ s[i] = "." /\ s[j] = "."
        /\ Numeral(SubSeq(s, 1, i - 1))
        /\ Numeral(SubSeq(s, i + 1, j - 1))
        /\ Numeral(SubSeq(s, j + 1, Len(s)))

\* M.N.P, M.N.P-pre or M.N.P-pre.K with integer components
IntegerTag(t) ==
    \/ IntegerCore(t)
    \/ /\ HasSuffix(t)
       /\ IntegerCore(BeforeSuffix(t))
       /\ \/ SuffixOf(t) = <<"p", "r", "e">>
          \/ IsPreOrdinal(SuffixOf(t), Numeral)

\* the run resumes from a tag listing that holds a malformed tag
MalformedTagListed ==
    /\ pc = "listRepositoryTags"
    /\ response.kind = "ok"
    /\ \E i \in 1..Len(response.data) : ~IntegerTag(response.data[i])
    /\ pc' # pc

\* main() starts a promotion from a malformed promote_from
MalformedPromoteFrom ==
    /\ pc = "main"
    /\ inputs.releaseMode = "promote"
    /\ inputs.promoteFrom # <<>>
    /\ ~IntegerTag(inputs.promoteFrom)
    /\ pc' # pc

\* C21: a malformed tag in the listed history, latest or not, or a malformed
\* promote_from, makes the run fail at once, and no release is created.
C21_MalformedTagFails ==
    [][ (MalformedTagListed \/ MalformedPromoteFrom) =>
          /\ pc' = "done"
          /\ failed'
          /\ requests' = requests
          /\ \A i \in 1..Len(requests') : requests'[i].op # "createRelease" ]_vars

(***************************************************************************)
(* Properties of the order of the requests.                                *)
(***************************************************************************)
Operations ==
    {"listAssociatedPullRequests", "listRepositoryTags", "getReleaseByTag", "createRelease"}

RequestedOperations == [i \in 1..Len(requests) |-> requests[i].op]

\* the requests a run with these inputs makes when nothing stops it
FullOrder ==
    IF inputs.releaseMode \in {"prerelease", "release"} /\ inputs.promoteFrom = <<>>
    THEN CASE inputs.versionBump = "prlabel" ->
                 <<"listAssociatedPullRequests", "listRepositoryTags", "createRelease">>
           [] inputs.versionBump \in {"major", "minor", "patch"} ->
                 <<"listRepositoryTags", "createRelease">>
           [] OTHER -> <<>>
    ELSE IF inputs.releaseMode = "promote"
    THEN IF inputs.promoteFrom = <<>>
         THEN <<"listRepositoryTags", "getReleaseByTag", "createRelease">>
         ELSE <<"getReleaseByTag", "createRelease">>
    ELSE <<>>

IsPrefix(s, t) == Len(s) <= Len(t) /\ s = SubSeq(t, 1, Len(s))

\* C22: the requests of a run are made one after the other in the order of
\* its path (label lookup only for prlabel, tag listing, createRelease; on
\* promote: tag listing only without promote_from, release lookup,
\* createRelease); only the last request can be unanswered, and
\* createRelease is made at most once and nothing follows it.
C22_RequestsInOrder ==
    /\ IsPrefix(RequestedOperations, FullOrder)
    /\ pc \in Operations => requests # <<>> /\ LastRequest.op = pc
    /\ pc = "main" => requests = <<>>
    /\ response # NoResponse => pc \in Operations
    /\ Cardinality({i \in 1..Len(requests) : requests[i].op = "createRelease"}) <= 1
    /\ \A i \in 1..Len(requests) : requests[i].op = "createRelease" => i = Len(requests)

\* a promotion of the latest prerelease went through its three requests
C22_Witness ==
    /\ pc = "done"
    /\ outputs.release_created = "true"
    /\ RequestedOperations = <<"listRepositoryTags", "getReleaseByTag", "createRelease">>

(***************************************************************************)
(* Properties of successive bumps.                                         *)
(***************************************************************************)
SameCore(v, w) == v.major = w.major /\ v.minor = w.minor /\ v.patch = w.patch

\* C23: after a final version was bumped to a prerelease with action X,
\* every further prerelease bump with X keeps major, minor and patch and
\* raises the ordinal by one, and a bump with X to a release gives the final
\* version of that same major, minor and patch.
C23_NoDoubleBump ==
    call.fn = "line" =>
        /\ isPreRelease(call.opened)
        /\ SameCore(call.ret, call.opened)
        /\ IF isPreRelease(call.ret)
           THEN call.ret.prerelease = call.opened.prerelease + call.bumps
           ELSE call.ret = Version(call.opened.major, call.opened.minor,
                                   call.opened.patch, MAX_VALUE)

\* 1.2.1 was bumped with Major to 2.0.0-pre, twice more, then released
C23_Witness ==
    /\ call.fn = "line"
    /\ call.from = Version(1, 2, 1, MAX_VALUE)
    /\ call.versionBumpAction = Major
    /\ call.bumps = MaxBumps
    /\ call.ret = Version(2, 0, 0, MAX_VALUE)

\* the run resumes from a label lookup that found several pull requests
SeveralPullRequests ==
    /\ pc = "listAssociatedPullRequests"
    /\ response.kind = "ok"
    /\ Len(response.data) >= 2

\* C24: when several pull requests are associated with the commit, the bump
\* action and the course of the run are those of a lookup that had returned
\* the first pull request alone; the labels of the others change nothing.
C24_FirstPullRequestDecides ==
    [][ (SeveralPullRequests /\ pc' # pc) =>
          LET alone == LabelledAction(<<response.data[1]>>)
          IN  /\ versionBumpAction' = alone
              /\ (pc' = "done") = (alone = null)
              /\ (pc' = "listRepositoryTags") = (alone # null)
              /\ ~failed' ]_vars

\* the first pull request asks for a minor bump, the second for a major one
C24_Witness ==
    /\ SeveralPullRequests
    /\ response.data[1] = <<"release:minor">>
    /\ response.data[2] = <<"release:major">>

(***************************************************************************)
(* Termination of a run.                                                   *)
(***************************************************************************)
\* how many of the three outcomes the run reports
Outcomes ==
    (IF failed THEN 1 ELSE 0)
    + (IF outputs.release_created = "false" THEN 1 ELSE 0)
    + (IF outputs.release_created = "true" THEN 1 ELSE 0)

\* C25: the inputs, and so the release mode, never change during a run; if
\* every request is answered or rejected in the end, the run ends; a run
\* that has ended reports exactly one of failed, no release created and
\* release created, and takes no further step.
C25_RunTerminatesOnce ==
    /\ [][inputs' = inputs]_vars
    /\ <>(pc = "done")
    /\ [](pc = "done" => Outcomes = 1)
    /\ [](pc # "done" => outputs.release_created = "unset" /\ ~failed)
    /\ [][pc = "done" => UNCHANGED vars]_vars

\* a release run with a labelled pull request ended with a release
C25_Witness ==
    /\ pc = "done"
    /\ inputs.releaseMode = "release"
    /\ inputs.versionBump = "prlabel"
    /\ Outcomes = 1
    /\ outputs.release_created = "true"
    /\ Len(requests) = 3

(***************************************************************************)
(* Properties of getNextVersion.                                           *)
(***************************************************************************)
\* C26: for every version, final or prerelease, every bump action and both
\* targets, the version getNextVersion returns compares strictly greater
\* than the version it was given.
C26_NextVersionIsGreater ==
    call.fn = "getNextVersion" =>
        /\ compare(call.ret, call.version) = 1
        /\ compare(call.version, call.ret) = -1
        /\ greaterThan(call.ret, call.version)

\* releasing a prerelease keeps its numbers: final is above prerelease
C26_Witness ==
    /\ call.fn = "getNextVersion"
    /\ call.version = Version(1, 2, 1, 1)
    /\ call.versionBumpAction = Patch
    /\ ~call.prerelease
    /\ call.ret = Version(1, 2, 1, MAX_VALUE)

(***************************************************************************)
(* Properties of the created version against the listed tags.              *)
(***************************************************************************)
\* C27: in prerelease and release mode the version requested from
\* createRelease compares strictly greater than every version of the tag
\* list, and its tag is the tag of none of them.
C27_CreatedAboveAllTags ==
    (releaseMode \in {0, 1} /\ Requested("createRelease")) =>
        \A i \in 1..Len(versions) :
            /\ greaterThan(nextVersion, versions[i])
            /\ LastRequest.tag_name # toTag(versions[i])

(***************************************************************************)
(* Properties of the at-least predicates.                                  *)
(***************************************************************************)
AtLeastChain(v) ==
    /\ isAtLeastMajorRelease(v) => isAtLeastMinorRelease(v)
    /\ isAtLeastMinorRelease(v) => isAtLeastPatchRelease(v)
    /\ isAtLeastPatchRelease(v)

\* C28: at-least-major implies at-least-minor implies at-least-patch, and
\* at-least-patch holds of every version; so a Patch bump of a prerelease
\* never takes the branch that increments patch: it keeps major, minor and
\* patch, for both targets.
C28_AtLeastChain ==
    call.fn = "getNextVersion" =>
        /\ AtLeastChain(call.version)
        /\ AtLeastChain(call.ret)
        /\ (isPreRelease(call.version) /\ call.versionBumpAction = Patch) =>
              /\ SameCore(call.ret, call.version)
              /\ call.ret # Version(call.version.major, call.version.minor,
                                    call.version.patch + 1,
                                    IF call.prerelease THEN 0 ELSE MAX_VALUE)

\* a prerelease with a patch number bumped with Patch to the next prerelease
C28_Witness ==
    /\ call.fn = "getNextVersion"
    /\ call.version = Version(1, 1, 2, 1)
    /\ call.versionBumpAction = Patch
    /\ call.prerelease
    /\ call.ret = Version(1, 1, 2, 2)

(***************************************************************************)
(* Properties of the bump tables' results.                                 *)
(***************************************************************************)
\* C29: the version getNextVersion returns for a Major bump has minor = 0
\* and patch = 0, for a Minor bump has patch = 0, and in each case satisfies
\* the at-least predicate of its action, for every version and both targets.
C29_BumpSatisfiesAtLeast ==
    call.fn = "getNextVersion" =>
        /\ call.versionBumpAction = Major =>
              /\ call.ret.minor = 0 /\ call.ret.patch = 0
              /\ isAtLeastMajorRelease(call.ret)
        /\ call.versionBumpAction = Minor =>
              /\ call.ret.patch = 0
              /\ isAtLeastMinorRelease(call.ret)
        /\ call.versionBumpAction = Patch => isAtLeastPatchRelease(call.ret)

\* a Minor bump of a patch prerelease to a release zeroes the patch
C29_Witness ==
    /\ call.fn = "getNextVersion"
    /\ call.version = Version(1, 1, 1, 1)
    /\ call.versionBumpAction = Minor
    /\ ~call.prerelease
    /\ call.ret = Version(1, 2, 0, MAX_VALUE)

(***************************************************************************)
(* Properties of the promoted version.                                     *)
(***************************************************************************)
\* C30: in promote mode the version requested from createRelease has the
\* major, minor and patch of the tag of the release being promoted, for
\* every release that passed the prerelease check, whatever its tag_name.
C30_PromotionKeepsCore ==
    (releaseMode = 2 /\ Requested("createRelease")) =>
        /\ targetPrerelease # NoRelease
        /\ targetPrerelease.prerelease
        /\ SameCore(nextVersion, tagToVersion(targetPrerelease.tag_name))
        /\ LastRequest.tag_name = toTag(Version(nextVersion.major, nextVersion.minor,
                                                nextVersion.patch, MAX_VALUE))

=============================================================================
